---- MODULE Spec2Model ----
(***************************************************************************)
(* Model of the grid path planner: planner::PathFinder (path_finder.cpp),  *)
(* the heuristic library (heuristic.cpp) and the occupancy grid handed to  *)
(* the search by planner::Map (map.cpp).                                   *)
(***************************************************************************)
EXTENDS Integers, Naturals, Sequences, FiniteSets, TLC

(***************************************************************************)
(* Bounds of the model.                                                    *)
(***************************************************************************)
MaxH == 3          \* largest map_params.height_ explored with window_size_ 1
MaxW == 3          \* largest map_params.width_ explored with window_size_ 1
MaxPixH == 2       \* largest map_params.height_ explored with window_size_ 2
MaxPixW == 3       \* largest map_params.width_ explored with window_size_ 2
MaxBlocked == 2    \* largest number of BLOCKED cells in a grid
MaxSide == 2       \* largest side of the square maps handed to Function::astar
MaxDark == 1       \* largest number of pixels of an image below the brightest level
MaxDilation == 1   \* largest map_params.dilation_ of a map that is built
MaxWindow == 2     \* largest map_params.window_size_ of a map that is built

(***************************************************************************)
(* Program constants.                                                      *)
(***************************************************************************)
FREE == 0
BLOCKED == 1
INT_MAX == 2147483647
CardinalCost == 2
DiagonalCost == 4

Coord(r, c) == [r |-> r, c |-> c]

\* planner::Coord::operator+
CoordAdd(a, b) == Coord(a.r + b.r, a.c + b.c)

\* PathFinder::PathFinder, directions_ (index 1..8 here, 0..7 in the code)
directions_ ==
  << Coord(0, 1), Coord(1, 0), Coord(0, -1), Coord(-1, 0),
     Coord(-1, -1), Coord(1, 1), Coord(-1, 1), Coord(1, -1) >>

HeuristicTypes == {"EUCLIDEAN", "MANHATTAN", "OCTAGONAL", "NOT_SUPPORTED"}
SearchTypes == {"ASTAR", "NOT_SUPPORTED"}

Abs(x) == IF x < 0 THEN -x ELSE x
Min(a, b) == IF a < b THEN a ELSE b

\* (unsigned int) sqrt( x ) for a non-negative integer x
ISqrt(x) == CHOOSE k \in 0..x : k * k <= x /\ (k + 1) * (k + 1) > x

\* heuristic::Function::get_delta
get_delta(a, b) == Coord(Abs(a.r - b.r), Abs(a.c - b.c))

\* the manhattan distance in units of 10 per step
manhattan_tens(a, b) == 10 * (get_delta(a, b).r + get_delta(a, b).c)

\* heuristic::Function::manhattan
manhattan(a, b) == get_delta(a, b).r + get_delta(a, b).c

\* heuristic::Function::euclidean
euclidean(a, b) ==
  ISqrt(get_delta(a, b).r * get_delta(a, b).r + get_delta(a, b).c * get_delta(a, b).c)

\* heuristic::Function::octagonal
octagonal(a, b) ==
  (get_delta(a, b).r + get_delta(a, b).c) - Min(get_delta(a, b).r, get_delta(a, b).c)

\* call through the bound std::function heuristic_func_
ApplyHeuristic(f, a, b) ==
  CASE f = "euclidean" -> euclidean(a, b)
    [] f = "manhattan" -> manhattan(a, b)
    [] f = "octagonal" -> octagonal(a, b)

VARIABLES
  map_params,        \* planner::MapParameters handed to find_path
  bin_map,           \* the occupancy grid handed to find_path (rows of cells)
  num_directions_,   \* PathFinder members
  heuristic_,
  heuristic_func_,
  source_,
  destination_,
  search_algorithm_,
  path_,
  pc,                \* "idle", "search" (inside the while loop of astar), "done", "crashed"
  closed_list,       \* astar locals: cells whose closed flag is true
  nodes,
  open_list,
  ret,               \* value returned by the last call of the public API
  msg,               \* diagnostic printed by the last find_path
  oob,               \* the last find_path indexed bin_map outside its bounds
  requested_source,  \* argument of the last set_source call, accepted or not
  prev,              \* outcome of the find_path call before the last one
  input_map_,        \* planner::Map members: the resized image, in grey levels
  obstacle_map_,     \* the colours of the obstacle map
  binary_map,        \* local of Map::create_obstacle_map: the thresholded image
  avg,               \* local of the grid builders: the mean of the last cell
  calls              \* find_path calls of two threads on the one PathFinder:
                     \* each call's position, astar locals and returned value

vars == << map_params, bin_map, num_directions_, heuristic_, heuristic_func_,
           source_, destination_, search_algorithm_, path_, pc, closed_list,
           nodes, open_list, ret, msg, oob, requested_source, prev,
           input_map_, obstacle_map_, binary_map, avg, calls >>

pfConfig == << num_directions_, heuristic_, heuristic_func_, search_algorithm_ >>
searchLocals == << closed_list, nodes, open_list >>
mapVars == << map_params, bin_map >>
callerVars == << requested_source, prev, calls >>
imageVars == << input_map_, obstacle_map_, binary_map, avg >>

(***************************************************************************)
(* The occupancy grid and its configuration (Map::Map, map.cpp).           *)
(***************************************************************************)
\* Map::Map: num_divs_w_ = width_ / window_size_, num_divs_h_ = height_ / window_size_
MakeParams(h, w, ws) ==
  [ height_ |-> h, width_ |-> w, window_size_ |-> ws,
    num_divs_h_ |-> h \div ws, num_divs_w_ |-> w \div ws ]

\* configurations whose grid has one cell per pixel
UnitConfigs == { MakeParams(h, w, 1) : h \in 1..MaxH, w \in 1..MaxW }

\* configurations whose cells are windows of 2 x 2 pixels, with at least one
\* whole window in each direction
WindowConfigs == { MakeParams(h, w, 2) : h \in 2..MaxPixH, w \in 2..MaxPixW }

MapConfigs == UnitConfigs \cup WindowConfigs

NumBlocked(g) ==
  Cardinality({ rc \in (DOMAIN g) \X (1..(MaxW + MaxPixW)) :
                  rc[2] \in DOMAIN g[rc[1]] /\ g[rc[1]][rc[2]] = BLOCKED })

\* Map::Map allocates binary_map_ as num_divs_h_ rows of num_divs_w_ cells and
\* Map::generate_binary_map writes FREE or BLOCKED into each of them
GridsOf(mp) ==
  { g \in [1..mp.num_divs_h_ -> [1..mp.num_divs_w_ -> {FREE, BLOCKED}]] :
      NumBlocked(g) <= MaxBlocked }

\* a std::vector<std::vector<int>> without rows: bin_map.empty() holds
EmptyMap == << >>

\* the coordinate lies inside the vectors of bin_map
InGrid(coordinate, g) ==
  /\ 0 <= coordinate.r /\ coordinate.r < Len(g)
  /\ 0 <= coordinate.c /\ coordinate.c < Len(g[coordinate.r + 1])

\* bin_map[ coordinate.r ][ coordinate.c ] for a coordinate inside the vectors
Cell(g, coordinate) == g[coordinate.r + 1][coordinate.c + 1]

(***************************************************************************)
(* PathFinder helpers (path_finder.cpp).                                   *)
(***************************************************************************)
\* PathFinder::is_coord_in_range
is_coord_in_range(coordinate, mp) ==
  /\ 0 <= coordinate.r /\ mp.height_ > coordinate.r
  /\ 0 <= coordinate.c /\ mp.width_ > coordinate.c

\* PathFinder::is_coord_destination
is_coord_destination(coordinate, destination) == destination = coordinate

\* the opposite sense of the test: a FREE cell counts as blocked
is_coord_blocked_free(coordinate, g) == FREE = Cell(g, coordinate)

\* PathFinder::is_coord_blocked, for a coordinate inside the vectors
is_coord_blocked(coordinate, g) == BLOCKED = Cell(g, coordinate)

\* Outcomes of bin_map[ r ][ c ] outside the vectors (undefined behaviour):
\* the word read compares equal to BLOCKED, or it does not, or the read faults.
OobOutcomes == {"blocked", "free", "fault"}

\* the outcomes after which the search goes on
OobValues == {"blocked", "free"}

\* is_coord_blocked on any coordinate: the grid decides inside the vectors,
\* the outcome o of the out-of-bounds read decides outside them
BlockedRead(coordinate, g, o) ==
  IF InGrid(coordinate, g) THEN is_coord_blocked(coordinate, g) ELSE o = "blocked"

\* every cell the closed list and the node table of astar cover
Region(mp) == { Coord(r, c) : r \in 0..(mp.height_ - 1), c \in 0..(mp.width_ - 1) }

\* Node::f(), "f = h + g" (path_finder.cpp:277)
Node_f(n) == n.h + n.g

\* a node of the table still holds { {-1,-1}, INT_MAX, INT_MAX }: its f() is
\* 2 * INT_MAX, above INT_MAX and above every cost the search computes
NodeUnset(n) == n.h = INT_MAX /\ n.g = INT_MAX

\* the test of path_finder.cpp:324-325
BetterF(n, h_temp, g_temp) ==
  \/ NodeUnset(n)
  \/ /\ ~NodeUnset(n)
     /\ (INT_MAX = Node_f(n) \/ h_temp + g_temp < Node_f(n))

\* cost of the step along directions_[ i ], i counted from 1
StepCost(i) == IF i <= 4 THEN CardinalCost ELSE DiagonalCost

RECURSIVE Chain(_, _, _)
\* PathFinder::get_path: destination first, then parent after parent, until the
\* cell that is its own parent; fuel bounds the walk by the size of the table
Chain(temp, nds, fuel) ==
  IF temp = nds[temp].parent \/ fuel = 0 \/ nds[temp].parent \notin DOMAIN nds
  THEN << temp >>
  ELSE << temp >> \o Chain(nds[temp].parent, nds, fuel - 1)

\* a walk that leaves out the cell the destination was reached from
get_path_skip(nds, destination) ==
  LET p == Chain(destination, nds, Cardinality(DOMAIN nds)) IN
  IF Len(p) >= 3 THEN << p[1] >> \o SubSeq(p, 3, Len(p)) ELSE p

get_path(nds, destination) == Chain(destination, nds, Cardinality(DOMAIN nds))

(***************************************************************************)
(* State after construction: PathFinder::PathFinder, and a map built by    *)
(* planner::Map for one of the configurations.                             *)
(***************************************************************************)
NoCoord == Coord(INT_MAX, INT_MAX)

\* empty node table, closed list and open list (no search has run)
NoNodes == << >>

\* a cv::Mat without data
NoImage == << >>

\* the threads that call find_path on the one PathFinder
Threads == {1, 2}

\* a call of find_path that has not started
NoCall ==
  [ pc |-> "idle", closed_list |-> {}, nodes |-> NoNodes, open_list |-> {},
    ret |-> FALSE, path |-> << >> ]

NoCalls == [t \in Threads |-> NoCall]

\* no find_path call has returned before the last one
NoRun == [ran |-> FALSE, path |-> << >>, ret |-> FALSE]

\* PathFinder::PathFinder next to a map built for one of the configurations
Constructed(configs) ==
  /\ map_params \in configs
  /\ bin_map \in GridsOf(map_params) \cup { EmptyMap }
  /\ num_directions_ = 4
  /\ heuristic_ = "MANHATTAN"
  /\ heuristic_func_ = "manhattan"
  /\ source_ = NoCoord
  /\ destination_ = NoCoord
  /\ search_algorithm_ = "ASTAR"
  /\ path_ = << >>
  /\ pc = "idle"
  /\ closed_list = {}
  /\ nodes = NoNodes
  /\ open_list = {}
  /\ ret = TRUE
  /\ msg = "none"
  /\ oob = FALSE
  /\ requested_source = NoCoord
  /\ input_map_ = NoImage
  /\ obstacle_map_ = NoImage
  /\ binary_map = NoImage
  /\ avg = 0
  /\ prev = NoRun
  /\ calls = NoCalls

Init == Constructed(MapConfigs)

\* the PathFinder is being configured: no find_path was called yet
Configuring == pc = "idle"

\* find_path can be called: no call is in progress
Callable == pc \in {"idle", "done"}

\* coordinates a caller hands to set_source / set_destination: every cell in
\* range of the configuration, one negative coordinate, one past each extent,
\* and the value the constructor leaves
CoordInputs(mp) ==
  Region(mp) \cup { Coord(-1, 0), Coord(mp.height_, 0), Coord(0, mp.width_) }

(***************************************************************************)
(* Setters.                                                                *)
(***************************************************************************)
\* PathFinder::set_search_algorithm
set_search_algorithm(search) ==
  /\ Configuring
  /\ IF "NOT_SUPPORTED" = search
     THEN /\ ret' = FALSE
          /\ UNCHANGED search_algorithm_
     ELSE /\ search_algorithm_' = search
          /\ ret' = TRUE
  /\ UNCHANGED << mapVars, imageVars, num_directions_, heuristic_, heuristic_func_,
                  source_, destination_, path_, pc, searchLocals, msg, oob,
                  callerVars >>

\* PathFinder::set_heuristic
set_heuristic(heuristic) ==
  /\ Configuring
  /\ CASE heuristic = "EUCLIDEAN" ->
            /\ heuristic_func_' = "euclidean"
            /\ num_directions_' = 8
            /\ ret' = TRUE
       [] heuristic = "MANHATTAN" ->
            /\ heuristic_func_' = "manhattan"
            /\ num_directions_' = 4
            /\ ret' = TRUE
       [] heuristic = "OCTAGONAL" ->
            /\ heuristic_func_' = "octagonal"
            /\ num_directions_' = 8
            /\ ret' = TRUE
       [] OTHER ->
            /\ ret' = FALSE
            /\ UNCHANGED << heuristic_func_, num_directions_ >>
  /\ UNCHANGED << mapVars, imageVars, heuristic_, search_algorithm_, source_, destination_,
                  path_, pc, searchLocals, msg, oob, callerVars >>

\* the test of set_source and set_destination on their argument
InvalidCoord(coordinate) ==
  \/ coordinate.r < 0 \/ coordinate.c < 0
  \/ coordinate.r = INT_MAX \/ coordinate.c = INT_MAX

\* PathFinder::set_source
set_source(source) ==
  /\ Configuring
  /\ IF InvalidCoord(source)
     THEN /\ ret' = FALSE
          /\ UNCHANGED source_
     ELSE /\ source_' = source
          /\ ret' = TRUE
  /\ requested_source' = source
  /\ UNCHANGED << mapVars, imageVars, pfConfig, destination_, path_, pc, searchLocals,
                  msg, oob, prev, calls >>

\* PathFinder::set_destination
set_destination(destination) ==
  /\ Configuring
  /\ IF InvalidCoord(destination)
     THEN /\ ret' = FALSE
          /\ UNCHANGED destination_
     ELSE /\ destination_' = destination
          /\ ret' = TRUE
  /\ UNCHANGED << mapVars, imageVars, pfConfig, source_, path_, pc, searchLocals, msg, oob,
                  callerVars >>

(***************************************************************************)
(* PathFinder::find_path and PathFinder::astar.                            *)
(***************************************************************************)
\* new Node( { coordinate, h, g } ): an entry of the open list
NewNode(coordinate, h, g) == [parent |-> coordinate, h |-> h, g |-> g]

\* the node table of astar right after its initialisation (lines 253-268)
InitNodes(mp, source) ==
  [ rc \in Region(mp) |->
      IF rc = source
      THEN [parent |-> source, h |-> 0, g |-> INT_MAX]
      ELSE [parent |-> Coord(-1, -1), h |-> INT_MAX, g |-> INT_MAX] ]

\* outcomes the read of bin_map at the coordinate can have
ReadOutcomes(coordinate, g) ==
  IF InGrid(coordinate, g) THEN {"free"} ELSE OobOutcomes

\* an out-of-bounds read of bin_map faults: the process ends inside find_path
Crash ==
  /\ pc' = "crashed"
  /\ oob' = TRUE
  /\ path_' = << >>
  /\ ret' = FALSE
  /\ msg' = "fault"
  /\ closed_list' = {}
  /\ nodes' = NoNodes
  /\ open_list' = {}

\* find_path returns before astar starts its loop
ReturnEarly(newPath, r, m, o) ==
  /\ path_' = newPath
  /\ ret' = r
  /\ msg' = m
  /\ oob' = o
  /\ pc' = "done"
  /\ closed_list' = {}
  /\ nodes' = NoNodes
  /\ open_list' = {}

\* PathFinder::find_path up to the first test of the while loop of astar
find_path ==
  /\ Callable
  /\ prev' = IF pc = "done" THEN [ran |-> TRUE, path |-> path_, ret |-> ret] ELSE NoRun
  /\ UNCHANGED << mapVars, imageVars, pfConfig, source_, destination_, requested_source,
                  calls >>
  /\ IF bin_map = EmptyMap
     THEN ReturnEarly(path_, FALSE, "map_empty", FALSE)
     ELSE IF search_algorithm_ # "ASTAR"
     THEN ReturnEarly(<< >>, FALSE, "search_not_supported", FALSE)
     ELSE IF ~is_coord_in_range(source_, map_params)
     THEN ReturnEarly(<< >>, FALSE, "source_invalid", FALSE)
     ELSE IF ~is_coord_in_range(destination_, map_params)
     THEN ReturnEarly(<< >>, FALSE, "destination_invalid", FALSE)
     ELSE \E o1 \in ReadOutcomes(source_, bin_map) :
       LET oob1 == ~InGrid(source_, bin_map) IN
       IF o1 = "fault"
       THEN Crash
       ELSE IF BlockedRead(source_, bin_map, o1)
       THEN ReturnEarly(<< >>, FALSE, "source_blocked", oob1)
       ELSE \E o2 \in ReadOutcomes(destination_, bin_map) :
         LET oob2 == oob1 \/ ~InGrid(destination_, bin_map) IN
         IF o2 = "fault"
         THEN Crash
         ELSE IF BlockedRead(destination_, bin_map, o2)
         THEN ReturnEarly(<< >>, FALSE, "destination_blocked", oob2)
         ELSE IF is_coord_destination(source_, destination_)
         THEN ReturnEarly(<< >>, FALSE, "already_at_destination", oob2)
         ELSE /\ closed_list' = {}
              /\ nodes' = InitNodes(map_params, source_)
              /\ open_list' = { NewNode(source_, 0, 0) }
              /\ path_' = << >>
              /\ oob' = oob2
              /\ pc' = "search"
              /\ msg' = "none"
              /\ ret' = FALSE

\* the nodes the selection loop of lines 278-285 can end on: it keeps the last
\* node, in the address order of std::set<Node*>, whose f() is minimal, and the
\* addresses operator new hands out are not determined by the inputs
MinNodes(open) == { n \in open : \A m \in open : Node_f(n) <= Node_f(m) }

\* directions of one expansion that read bin_map outside its vectors: the
\* neighbour is in range of map_params, is not closed, and no earlier
\* direction (nor this one) reaches the destination
OobDirs(cur) ==
  { i \in 1..num_directions_ :
      /\ is_coord_in_range(CoordAdd(cur, directions_[i]), map_params)
      /\ ~InGrid(CoordAdd(cur, directions_[i]), bin_map)
      /\ CoordAdd(cur, directions_[i]) \notin closed_list \cup { cur }
      /\ \A j \in 1..i : CoordAdd(cur, directions_[j]) # destination_ }

RECURSIVE Successors(_, _, _, _, _)
\* the for loop of lines 299-335 from direction i on; st carries temp_node->g,
\* the open list, the node table and how the loop ended so far; orc gives the
\* outcome of each out-of-bounds read of bin_map
Successors(i, st, cur, closed, orc) ==
  IF i > num_directions_ \/ st.status # "run" THEN st
  ELSE
    LET move == CoordAdd(cur, directions_[i]) IN
    IF ~is_coord_in_range(move, map_params)
    THEN Successors(i + 1, st, cur, closed, orc)
    ELSE IF is_coord_destination(move, destination_)
    THEN [st EXCEPT !.nodes[move].parent = cur, !.status = "found"]
    ELSE IF move \in closed
    THEN Successors(i + 1, st, cur, closed, orc)
    ELSE
      LET outside == ~InGrid(move, bin_map)
          o == IF outside THEN orc[i] ELSE "free"
          st1 == [st EXCEPT !.oob = st.oob \/ outside]
      IN
      IF BlockedRead(move, bin_map, o)
      THEN Successors(i + 1, st1, cur, closed, orc)
      ELSE
        LET h_temp == ApplyHeuristic(heuristic_func_, move, destination_)
            g_temp == st.g + StepCost(i)
        IN
        IF BetterF(st.nodes[move], h_temp, g_temp)
        THEN Successors(i + 1,
               [st1 EXCEPT !.g = g_temp,
                           !.open = st.open \cup { NewNode(move, h_temp, g_temp) },
                           !.nodes[move] = [parent |-> cur, h |-> h_temp, g |-> g_temp]],
               cur, closed, orc)
        ELSE Successors(i + 1, st1, cur, closed, orc)

\* one iteration of the while loop of astar (lines 275-336) on the node chosen
Expand(temp_node, orc) ==
  LET current_coord == temp_node.parent
      closed == closed_list \cup { current_coord }
      st0 == [g |-> temp_node.g, open |-> open_list \ { temp_node },
              nodes |-> nodes, status |-> "run", oob |-> oob]
      st == Successors(1, st0, current_coord, closed, orc)
  IN
  /\ CASE st.status = "found" ->
            /\ oob' = st.oob
            /\ path_' = get_path(st.nodes, destination_)
            /\ ret' = TRUE
            /\ msg' = "found"
            /\ pc' = "done"
            /\ closed_list' = {}
            /\ nodes' = NoNodes
            /\ open_list' = {}
       [] OTHER ->
            /\ oob' = st.oob
            /\ closed_list' = closed
            /\ nodes' = st.nodes
            /\ open_list' = st.open
            /\ UNCHANGED << path_, ret, msg, pc >>

astar_step ==
  /\ pc = "search"
  /\ open_list # {}
  /\ UNCHANGED << mapVars, imageVars, pfConfig, source_, destination_, callerVars >>
  /\ \E temp_node \in MinNodes(open_list) :
       \/ \E orc \in [OobDirs(temp_node.parent) -> OobValues] :
            Expand(temp_node, orc)
       \/ /\ OobDirs(temp_node.parent) # {}
          /\ Crash

\* the open list is empty: lines 338-344 of astar, then lines 199-204 of find_path
astar_exhausted ==
  /\ pc = "search"
  /\ open_list = {}
  /\ UNCHANGED << mapVars, imageVars, pfConfig, source_, destination_, oob, callerVars >>
  /\ path_' = << >>
  /\ ret' = FALSE
  /\ msg' = "no_destination"
  /\ pc' = "done"
  /\ closed_list' = {}
  /\ nodes' = NoNodes
  /\ open_list' = {}

(***************************************************************************)
(* Specification.                                                          *)
(***************************************************************************)
Next ==
  \/ \E s \in SearchTypes : set_search_algorithm(s)
  \/ \E h \in HeuristicTypes : set_heuristic(h)
  \/ \E c \in CoordInputs(map_params) : set_source(c)
  \/ \E c \in CoordInputs(map_params) : set_destination(c)
  \/ find_path
  \/ astar_step
  \/ astar_exhausted

Spec == Init /\ [][Next]_vars

(***************************************************************************)
(* A map of 6 x 2 pixels cut into windows of 2 x 2 pixels: the grid has    *)
(* one row of three cells, map_params has height_ 2 and width_ 6.  The     *)
(* caller only asks for cells of the grid and calls find_path once.        *)
(***************************************************************************)
WindowParams == MakeParams(2, 6, 2)

GridCells(g) == { rc \in Region(map_params) : InGrid(rc, g) }

InitWin == Constructed({WindowParams})

NextWin ==
  \/ \E s \in SearchTypes : set_search_algorithm(s)
  \/ \E h \in HeuristicTypes : set_heuristic(h)
  \/ \E c \in GridCells(bin_map) \cup { Coord(-1, 0) } : set_source(c)
  \/ \E c \in GridCells(bin_map) \cup { Coord(-1, 0) } : set_destination(c)
  \/ (Configuring /\ find_path)
  \/ astar_step
  \/ astar_exhausted

SpecWin == InitWin /\ [][NextWin]_vars

(***************************************************************************)
(* A caller that hands find_path another grid on a later call: bin_map is  *)
(* an argument of find_path, and the caller of the next call passes a      *)
(* vector without rows.                                                    *)
(***************************************************************************)
pass_empty_map ==
  /\ pc = "done"
  /\ bin_map # EmptyMap
  /\ bin_map' = EmptyMap
  /\ UNCHANGED << map_params, imageVars, pfConfig, source_, destination_, path_, pc,
                  searchLocals, ret, msg, oob, callerVars >>

NextCalls ==
  \/ Next
  \/ pass_empty_map

SpecCalls == Init /\ [][NextCalls]_vars

(***************************************************************************)
(* planner::search_algorithm::Function::astar (search.cpp), the static     *)
(* search that takes the grid, the endpoints and the heuristic as          *)
(* arguments.  source_, destination_ and heuristic_ hold its arguments,    *)
(* heuristic_func_ and num_directions_ its locals of lines 80-82, path_    *)
(* the vector it fills.  The maps are square, so that the coordinates      *)
(* Function::is_coord_valid accepts are cells of the grid and of the       *)
(* tables.                                                                 *)
(***************************************************************************)
\* Function::is_coord_valid: rows against width_, columns against height_
Function_is_coord_valid(coordinate, mp) ==
  /\ coordinate.r >= 0 /\ coordinate.r < mp.width_
  /\ coordinate.c >= 0 /\ coordinate.c < mp.height_

\* Function::is_coord_blocked
Function_is_coord_blocked(coordinate, g) == Cell(g, coordinate) = FREE

\* Function::get_path: the same walk as PathFinder::get_path
Function_get_path(nds, destination) ==
  Chain(destination, nds, Cardinality(DOMAIN nds))

\* new Node( { coordinate, h } ) of planner.h: an entry of the open list
Function_NewNode(coordinate, h) == [parent |-> coordinate, h |-> h]

\* the node table after lines 124-140
Function_InitNodes(mp, source) ==
  [ rc \in Region(mp) |->
      IF rc = source
      THEN [parent |-> source, h |-> INT_MAX]
      ELSE [parent |-> Coord(-1, -1), h |-> INT_MAX] ]

SquareConfigs == { MakeParams(n, n, 1) : n \in 1..MaxSide }

InitFn == Constructed(SquareConfigs) /\ bin_map # EmptyMap

\* Function::astar from its entry to the first test of the while loop
Function_astar(source, destination, heuristic) ==
  /\ pc = "idle"
  /\ source_' = source
  /\ destination_' = destination
  /\ heuristic_' = heuristic
  /\ UNCHANGED << mapVars, imageVars, search_algorithm_, callerVars >>
  /\ IF \/ ~Function_is_coord_valid(source, map_params)
        \/ ~Function_is_coord_valid(destination, map_params)
        \/ ~Function_is_coord_blocked(source, bin_map)
        \/ ~Function_is_coord_blocked(destination, bin_map)
        \/ is_coord_destination(source, destination)
     THEN /\ UNCHANGED << heuristic_func_, num_directions_ >>
          /\ IF ~Function_is_coord_valid(source, map_params)
             THEN ReturnEarly(path_, FALSE, "source_invalid", FALSE)
             ELSE IF ~Function_is_coord_valid(destination, map_params)
             THEN ReturnEarly(path_, FALSE, "destination_invalid", FALSE)
             ELSE IF ~Function_is_coord_blocked(source, bin_map)
             THEN ReturnEarly(path_, FALSE, "source_blocked", FALSE)
             ELSE IF ~Function_is_coord_blocked(destination, bin_map)
             THEN ReturnEarly(path_, FALSE, "destination_blocked", FALSE)
             ELSE ReturnEarly(path_, TRUE, "already_at_destination", FALSE)
     ELSE IF heuristic = "NOT_SUPPORTED"
     THEN /\ UNCHANGED << heuristic_func_, num_directions_ >>
          /\ ReturnEarly(path_, FALSE, "heuristic_not_supported", FALSE)
     ELSE /\ heuristic_func_' = CASE heuristic = "EUCLIDEAN" -> "euclidean"
                                  [] heuristic = "MANHATTAN" -> "manhattan"
                                  [] heuristic = "OCTAGONAL" -> "octagonal"
          /\ num_directions_' = IF heuristic = "MANHATTAN" THEN 4 ELSE 8
          /\ closed_list' = {}
          /\ nodes' = Function_InitNodes(map_params, source)
          /\ open_list' = { Function_NewNode(source, 0) }
          /\ pc' = "search"
          /\ ret' = FALSE
          /\ msg' = "none"
          /\ UNCHANGED << path_, oob >>

RECURSIVE Function_Successors(_, _, _, _)
\* the for loop of lines 162-194 from direction i on; st carries the open
\* list, the node table and how the loop ended so far
Function_Successors(i, st, cur, closed) ==
  IF i > num_directions_ \/ st.status # "run" THEN st
  ELSE
    LET move == CoordAdd(cur, directions_[i]) IN
    IF ~Function_is_coord_valid(move, map_params)
    THEN Function_Successors(i + 1, st, cur, closed)
    ELSE IF is_coord_destination(move, destination_)
    THEN [st EXCEPT !.nodes[move].parent = cur, !.status = "found"]
    ELSE IF move \notin closed /\ ~Function_is_coord_blocked(move, bin_map)
    THEN
      LET h_temp == ApplyHeuristic(heuristic_func_, move, destination_) IN
      IF st.nodes[move].h = INT_MAX \/ st.nodes[move].h > h_temp
      THEN Function_Successors(i + 1,
             [st EXCEPT !.open = st.open \cup { Function_NewNode(move, h_temp) },
                        !.nodes[move] = [parent |-> cur, h |-> h_temp]],
             cur, closed)
      ELSE Function_Successors(i + 1, st, cur, closed)
    ELSE Function_Successors(i + 1, st, cur, closed)

\* one iteration of the while loop of lines 148-195: *open_list.begin() is the
\* node at the lowest address, which can be any node of the open list
Function_astar_step ==
  /\ pc = "search"
  /\ open_list # {}
  /\ UNCHANGED << mapVars, imageVars, pfConfig, source_, destination_, oob, callerVars >>
  /\ \E temp_node \in open_list :
       LET current_coord == temp_node.parent
           closed == closed_list \cup { current_coord }
           st0 == [open |-> open_list \ { temp_node }, nodes |-> nodes,
                   status |-> "run"]
           st == Function_Successors(1, st0, current_coord, closed)
       IN
       IF st.status = "found"
       THEN /\ path_' = Function_get_path(st.nodes, destination_)
            /\ ret' = TRUE
            /\ msg' = "found"
            /\ pc' = "done"
            /\ closed_list' = {}
            /\ nodes' = NoNodes
            /\ open_list' = {}
       ELSE /\ closed_list' = closed
            /\ nodes' = st.nodes
            /\ open_list' = st.open
            /\ UNCHANGED << path_, ret, msg, pc >>

\* the open list is empty: lines 197-203
Function_astar_exhausted ==
  /\ pc = "search"
  /\ open_list = {}
  /\ UNCHANGED << mapVars, imageVars, pfConfig, source_, destination_, oob, callerVars >>
  /\ path_' = << >>
  /\ ret' = FALSE
  /\ msg' = "no_destination"
  /\ pc' = "done"
  /\ closed_list' = {}
  /\ nodes' = NoNodes
  /\ open_list' = {}

NextFn ==
  \/ \E s \in CoordInputs(map_params), d \in CoordInputs(map_params),
        h \in HeuristicTypes : Function_astar(s, d, h)
  \/ Function_astar_step
  \/ Function_astar_exhausted

SpecFn == InitFn /\ [][NextFn]_vars

\* the same search on maps wide enough for the open list to hold nodes of
\* different h
MaxFnSide == 3
WideConfigs == { MakeParams(n, n, 1) : n \in 1..MaxFnSide }

InitFnWide == Constructed(WideConfigs) /\ bin_map # EmptyMap

SpecFnWide == InitFnWide /\ [][NextFn]_vars

(***************************************************************************)
(* planner::PathGenerator (path_generator.cpp), the earlier planner class. *)
(* Its constructor leaves the members the values PathFinder's constructor  *)
(* leaves; search_algorithm_ holds its member algorithm_.  ret is the bool *)
(* the caller receives, msg the diagnostic the call printed.               *)
(***************************************************************************)
\* EXIT_SUCCESS and EXIT_FAILURE of <cstdlib>
EXIT_SUCCESS == 0
EXIT_FAILURE == 1

\* conversion of the int of a return statement to the bool the method returns
IntToBool(x) == x # 0

InitGen == Constructed(SquareConfigs)

\* PathGenerator::set_heuristic
PathGenerator_set_heuristic(h) ==
  /\ pc = "idle"
  /\ heuristic_' = h
  /\ CASE h = "EUCLIDEAN" ->
            /\ heuristic_func_' = "euclidean"
            /\ num_directions_' = 8
            /\ ret' = IntToBool(EXIT_SUCCESS)
            /\ msg' = "none"
       [] h = "MANHATTAN" ->
            /\ heuristic_func_' = "manhattan"
            /\ num_directions_' = 4
            /\ ret' = IntToBool(EXIT_SUCCESS)
            /\ msg' = "none"
       [] h = "OCTAGONAL" ->
            /\ heuristic_func_' = "octagonal"
            /\ num_directions_' = 8
            /\ ret' = IntToBool(EXIT_SUCCESS)
            /\ msg' = "none"
       [] OTHER ->
            /\ ret' = IntToBool(EXIT_FAILURE)
            /\ msg' = "heuristic_not_supported"
            /\ UNCHANGED << heuristic_func_, num_directions_ >>
  /\ UNCHANGED << mapVars, imageVars, search_algorithm_, source_, destination_, path_, pc,
                  searchLocals, oob, callerVars >>

\* PathGenerator::set_search_algorithm
PathGenerator_set_search_algorithm(search) ==
  /\ pc = "idle"
  /\ IF search = "ASTAR"
     THEN ret' = IntToBool(EXIT_SUCCESS) /\ msg' = "none"
     ELSE ret' = IntToBool(EXIT_FAILURE) /\ msg' = "search_not_supported"
  /\ UNCHANGED << mapVars, imageVars, pfConfig, source_, destination_, path_, pc,
                  searchLocals, oob, callerVars >>

\* PathGenerator::set_source
PathGenerator_set_source(source) ==
  /\ pc = "idle"
  /\ source_' = source
  /\ UNCHANGED << mapVars, imageVars, pfConfig, destination_, path_, pc, searchLocals,
                  ret, msg, oob, callerVars >>

\* PathGenerator::set_destination
PathGenerator_set_destination(destination) ==
  /\ pc = "idle"
  /\ destination_' = destination
  /\ UNCHANGED << mapVars, imageVars, pfConfig, source_, path_, pc, searchLocals, ret,
                  msg, oob, callerVars >>

NextGen ==
  \/ \E h \in HeuristicTypes : PathGenerator_set_heuristic(h)
  \/ \E s \in SearchTypes : PathGenerator_set_search_algorithm(s)
  \/ \E c \in CoordInputs(map_params) : PathGenerator_set_source(c)
  \/ \E c \in CoordInputs(map_params) : PathGenerator_set_destination(c)

SpecGen == InitGen /\ [][NextGen]_vars

(***************************************************************************)
(* a_star_search of main.cpp, the search of the stand-alone program.  The  *)
(* grid has GRID_HEIGHT = map_params.height_ rows and GRID_WIDTH =         *)
(* map_params.width_ columns, GRID_WIDTH >= GRID_HEIGHT as in the program. *)
(* source_ and destination_ hold src and dest, nodes holds node_list,      *)
(* open_list the set of < f, < i, j > > pairs, path_ the cells trace_path  *)
(* prints.  The doubles f, g and h are kept in tenths.                     *)
(***************************************************************************)
\* FLT_MAX: above every finite cost; a double keeps it when a cost is added
FLT_MAX == INT_MAX

\* 1.0, the increment of compute_g_cost, in tenths
GUnit == 10

\* x + y on doubles, x possibly FLT_MAX
DAdd(x, y) == IF x = FLT_MAX \/ y = FLT_MAX THEN FLT_MAX ELSE x + y

\* is_pair_valid
is_pair_valid(r, c, mp) == r >= 0 /\ r < mp.height_ /\ c >= 0 /\ c < mp.width_

\* is_pair_blocked: the int of the grid converted to bool
is_pair_blocked(grid, r, c) == grid[r + 1][c + 1] # 0

\* is_destination
is_destination(r, c, d) == r = d.r /\ c = d.c

\* compute_g_cost
compute_g_cost(g) == DAdd(g, GUnit)

\* compute_heuristic_cost: sqrt( dr^2 + dc^2 ), cut to tenths
compute_heuristic_cost(r, c, d) ==
  ISqrt(100 * ((r - d.r) * (r - d.r) + (c - d.c) * (c - d.c)))

\* compute_f_cost
compute_f_cost(g, h) == DAdd(g, h)

\* values an element of node_list the initialisation loop never wrote can hold
GarbageValues == {0, FLT_MAX}

\* marks an element of node_list nothing has written yet
Unwritten == -1

\* the cells of node_list lines 156-164 initialise: the inner loop stops at
\* GRID_HEIGHT, not at GRID_WIDTH
InitialisedCells(mp) == { rc \in Region(mp) : rc.c < mp.height_ }

\* node_list after lines 154-173
NodeList(mp, src) ==
  [ rc \in Region(mp) |->
      IF rc = src THEN [parent |-> src, f |-> 0, g |-> 0]
      ELSE IF rc \in InitialisedCells(mp)
      THEN [parent |-> Coord(-1, -1), f |-> FLT_MAX, g |-> FLT_MAX]
      ELSE [parent |-> Coord(-1, -1), f |-> Unwritten, g |-> Unwritten] ]

RECURSIVE WriteCells(_, _, _)
\* grid[ p.first ][ p.second ] = v for every cell p of the sequence
WriteCells(grid, cells, v) ==
  IF cells = << >> THEN grid
  ELSE WriteCells([grid EXCEPT ![cells[1].r + 1][cells[1].c + 1] = v],
                  Tail(cells), v)

\* the value trace_path writes into the cells of the path (main.cpp:120)
PathMark == 5

\* the cells trace_path pushes on its stack, destination first
trace_path_cells(node_list, dest) ==
  Chain(dest, node_list, Cardinality(DOMAIN node_list))

MainConfigs ==
  { mp \in { MakeParams(h, w, 1) : h \in 1..MaxSide, w \in 1..MaxW } :
      mp.width_ >= mp.height_ }

InitMain == Constructed(MainConfigs) /\ bin_map # EmptyMap

\* a_star_search up to the first test of its while loop
a_star_search(src, dest) ==
  /\ pc = "idle"
  /\ source_' = src
  /\ destination_' = dest
  /\ UNCHANGED << mapVars, imageVars, pfConfig, callerVars, oob, ret, path_ >>
  /\ IF ~is_pair_valid(src.r, src.c, map_params)
     THEN /\ msg' = "source_invalid" /\ pc' = "done"
          /\ UNCHANGED searchLocals
     ELSE IF ~is_pair_valid(dest.r, dest.c, map_params)
     THEN /\ msg' = "destination_invalid" /\ pc' = "done"
          /\ UNCHANGED searchLocals
     ELSE IF \/ is_pair_blocked(bin_map, src.r, src.c)
             \/ is_pair_blocked(bin_map, dest.r, dest.c)
     THEN /\ msg' = "source_blocked" /\ pc' = "done"
          /\ UNCHANGED searchLocals
     ELSE IF is_destination(src.r, src.c, dest)
     THEN /\ msg' = "already_at_destination" /\ pc' = "done"
          /\ UNCHANGED searchLocals
     ELSE /\ closed_list' = {}
          /\ nodes' = NodeList(map_params, src)
          /\ open_list' = { [f |-> 0, parent |-> src] }
          /\ msg' = "none"
          /\ pc' = "search"

\* the order of std::set< pPair >: by f, then by row, then by column
PairLess(a, b) ==
  \/ a.f < b.f
  \/ a.f = b.f /\ a.parent.r < b.parent.r
  \/ a.f = b.f /\ a.parent.r = b.parent.r /\ a.parent.c < b.parent.c

\* *open_list.begin()
FirstPair(open) == CHOOSE p \in open : \A q \in open \ { p } : PairLess(p, q)

\* the cells the double loop of lines 202-203 visits, in its order
NeighbourOrder(i, j) ==
  << Coord(i - 1, j - 1), Coord(i - 1, j), Coord(i - 1, j + 1),
     Coord(i, j - 1),     Coord(i, j),     Coord(i, j + 1),
     Coord(i + 1, j - 1), Coord(i + 1, j), Coord(i + 1, j + 1) >>

\* the neighbours whose element of node_list is read before anything wrote it
GarbageReads(cur, closed) ==
  { k \in 1..9 :
      LET t == NeighbourOrder(cur.r, cur.c)[k] IN
      /\ is_pair_valid(t.r, t.c, map_params)
      /\ ~is_destination(t.r, t.c, destination_)
      /\ t \notin closed
      /\ ~is_pair_blocked(bin_map, t.r, t.c)
      /\ nodes[t].f = Unwritten }

RECURSIVE MainSuccessors(_, _, _, _, _)
\* the double loop of lines 202-234 from the k-th neighbour on; orc gives the
\* f and g found in the elements of node_list read before anything wrote them
MainSuccessors(k, st, cur, closed, orc) ==
  IF k > 9 \/ st.status # "run" THEN st
  ELSE
    LET t == NeighbourOrder(cur.r, cur.c)[k] IN
    IF ~is_pair_valid(t.r, t.c, map_params)
    THEN MainSuccessors(k + 1, st, cur, closed, orc)
    ELSE IF is_destination(t.r, t.c, destination_)
    THEN [st EXCEPT !.nodes[t].parent = cur, !.status = "found"]
    ELSE IF t \notin closed /\ ~is_pair_blocked(bin_map, t.r, t.c)
    THEN
      LET nd == IF st.nodes[t].f = Unwritten
                THEN [st.nodes[t] EXCEPT !.f = orc[k][1], !.g = orc[k][2]]
                ELSE st.nodes[t]
          g_new == compute_g_cost(nd.g)
          h_new == compute_heuristic_cost(t.r, t.c, destination_)
          f_new == compute_f_cost(g_new, h_new)
      IN
      IF nd.f = FLT_MAX \/ nd.f > f_new
      THEN MainSuccessors(k + 1,
             [st EXCEPT !.open = st.open \cup { [f |-> f_new, parent |-> t] },
                        !.nodes[t] = [parent |-> cur, f |-> f_new, g |-> g_new]],
             cur, closed, orc)
      ELSE MainSuccessors(k + 1, [st EXCEPT !.nodes[t] = nd], cur, closed, orc)
    ELSE MainSuccessors(k + 1, st, cur, closed, orc)

\* one iteration of the while loop of lines 187-235; on the destination,
\* trace_path marks the cells of the path in the grid and the search returns
a_star_search_step ==
  /\ pc = "search"
  /\ open_list # {}
  /\ UNCHANGED << map_params, imageVars, pfConfig, source_, destination_, oob, ret,
                  callerVars >>
  /\ LET p == FirstPair(open_list)
         closed == closed_list \cup { p.parent }
         st0 == [open |-> open_list \ { p }, nodes |-> nodes, status |-> "run"]
     IN
     \E orc \in [GarbageReads(p.parent, closed) -> GarbageValues \X GarbageValues] :
       LET st == MainSuccessors(1, st0, p.parent, closed, orc) IN
       IF st.status = "found"
       THEN /\ path_' = trace_path_cells(st.nodes, destination_)
            /\ bin_map' = WriteCells(bin_map,
                                     trace_path_cells(st.nodes, destination_),
                                     PathMark)
            /\ msg' = "found"
            /\ pc' = "done"
            /\ closed_list' = {}
            /\ nodes' = NoNodes
            /\ open_list' = {}
       ELSE /\ closed_list' = closed
            /\ nodes' = st.nodes
            /\ open_list' = st.open
            /\ UNCHANGED << bin_map, path_, msg, pc >>

\* the open list is empty: lines 236-239
a_star_search_exhausted ==
  /\ pc = "search"
  /\ open_list = {}
  /\ UNCHANGED << mapVars, imageVars, pfConfig, source_, destination_, oob, ret, path_,
                  callerVars >>
  /\ msg' = "no_destination"
  /\ pc' = "done"
  /\ closed_list' = {}
  /\ nodes' = NoNodes
  /\ open_list' = {}

NextMain ==
  \/ \E s \in CoordInputs(map_params), d \in CoordInputs(map_params) :
       a_star_search(s, d)
  \/ a_star_search_step
  \/ a_star_search_exhausted

SpecMain == InitMain /\ [][NextMain]_vars

(***************************************************************************)
(* planner::Map (map.cpp): the constructor from a configuration and an     *)
(* image, and create_obstacle_map.  map_params holds map_params_, bin_map  *)
(* holds binary_map_.  An image is a sequence of rows of grey levels; the  *)
(* image handed to the constructor has the configured size already, so     *)
(* that cv::resize and the conversion to grey leave its levels as they are.*)
(***************************************************************************)
\* min_thresh and max_thresh of the configuration (the values of Map::Map())
MinThresh == 200
MaxThresh == 255

\* the value of a full channel of a cv::Vec3b
ChannelMax == 255

\* grey levels of the pixels: under, at and over min_thresh_
Intensities == {MinThresh - 1, MinThresh, MaxThresh}

\* the sets of at most MaxDark pixels of an image of h rows and w columns
DarkSets(h, w) ==
  { D \in SUBSET ((1..h) \X (1..w)) : Cardinality(D) <= MaxDark }

\* images of h rows and w columns: the pixels of a dark set have a level under
\* or at min_thresh_, the others the brightest level
Images(h, w) ==
  UNION { { [r \in 1..h |->
               [c \in 1..w |-> IF << r, c >> \in D THEN level[<< r, c >>]
                                ELSE MaxThresh]] :
              level \in [D -> Intensities \ { MaxThresh }] } :
          D \in DarkSets(h, w) }

\* an image of rows x cols pixels of one value
Uniform(rows, cols, v) == [r \in 1..rows |-> [c \in 1..cols |-> v]]

RECURSIVE Written(_, _)
\* the first n elements of f, written out
Written(f, n) == IF n = 0 THEN << >> ELSE Append(Written(f, n - 1), f[n])

\* the matrix whose rows are the rows of img, written out pixel by pixel
Pixels(img) ==
  Written([r \in DOMAIN img |-> Written(img[r], Cardinality(DOMAIN img[r]))],
          Cardinality(DOMAIN img))

\* cv::threshold( src, dst, thresh, maxval, CV_THRESH_BINARY_INV ):
\* dst = src > thresh ? 0 : maxval
ThresholdBinaryInv(src, thresh, maxval) ==
  Pixels(
  [r \in DOMAIN src |->
     [c \in DOMAIN src[r] |-> IF src[r][c] > thresh THEN 0 ELSE maxval]])

\* sqrt( n ) rounded to the nearest integer
RoundSqrt(n) ==
  CHOOSE k \in 0..(n + 1) :
    /\ k = 0 \/ (2 * k - 1) * (2 * k - 1) <= 4 * n
    /\ 4 * n < (2 * k + 1) * (2 * k + 1)

\* getStructuringElement( MORPH_ELLIPSE, Size( 2d+1, 2d+1 ), Point( d, d ) ):
\* the offsets < dy, dx > of its non-zero elements from the anchor
EllipseElement(d) ==
  { o \in (-d..d) \X (-d..d) : Abs(o[2]) <= RoundSqrt(d * d - o[1] * o[1]) }

\* one pass of cv::dilate: the maximum over the element, inside the image
DilateOnce(m, element) ==
  Pixels(
  [r \in DOMAIN m |->
     [c \in DOMAIN m[r] |->
        IF \E o \in element :
             /\ r + o[1] \in DOMAIN m
             /\ c + o[2] \in DOMAIN m[r]
             /\ m[r + o[1]][c + o[2]] # 0
        THEN CHOOSE v \in { m[r + o[1]][c + o[2]] :
                              o \in { e \in element : /\ r + e[1] \in DOMAIN m
                                                     /\ c + e[2] \in DOMAIN m[r] } } :
               v # 0
        ELSE 0]])

RECURSIVE Dilate(_, _, _)
\* cv::dilate( src, dst, element, Point( -1, -1 ), iterations )
Dilate(m, element, iterations) ==
  IF iterations = 0 THEN m
  ELSE Dilate(DilateOnce(m, element), element, iterations - 1)

\* the iterations argument of the cv::dilate call
DilateIterations == 3

\* Map::create_bgr_obstacle_map
create_bgr_obstacle_map(dilated_map, max_thresh) ==
  Pixels(
  [r \in DOMAIN dilated_map |->
     [c \in DOMAIN dilated_map[r] |->
        IF dilated_map[r][c] = max_thresh THEN "blue" ELSE "white"]])

\* the bytes of a pixel of the obstacle map, in the order blue, green, red
ColourBytes(colour) ==
  CASE colour = "blue" -> << ChannelMax, 0, 0 >>
    [] colour = "white" -> << ChannelMax, ChannelMax, ChannelMax >>
    [] OTHER -> << 0, 0, 0 >>

\* rows and columns of obstacle_map_( roi & bounds ) for the window at x, y
CropRows(obst, y, win) == Min(win, Len(obst) - y)
CropCols(obst, x, win) == Min(win, Len(obst[1]) - x)

\* roi.at<uchar>( i, j ) on the three-channel crop at x, y: the j-th byte of
\* row i of the crop
CropByte(obst, x, y, i, j) ==
  ColourBytes(obst[y + i + 1][x + (j \div 3) + 1])[(j % 3) + 1]

RECURSIVE CropSum(_, _, _, _, _, _)
\* the sum of roi_average over the elements k, k+1, ... of the crop
CropSum(obst, x, y, rows, cols, k) ==
  IF k >= rows * cols THEN 0
  ELSE CropByte(obst, x, y, k \div cols, k % cols)
       + CropSum(obst, x, y, rows, cols, k + 1)

\* Map::roi_average on the crop of the window at x, y
roi_average(obst, x, y, win) ==
  LET rows == CropRows(obst, y, win)
      cols == CropCols(obst, x, win)
      sum == CropSum(obst, x, y, rows, cols, 0)
  IN IF sum = 0 THEN 0 ELSE sum \div (rows * cols)

\* the threshold of the mean of a free cell (FREE_CELL of planner.h)
FREE_CELL == 225

\* the value Map::generate_binary_map writes for a mean (map.cpp:226)
ClassifyCell(mean) == IF mean < FREE_CELL THEN BLOCKED ELSE FREE

\* the values x and y take in the loops of generate_binary_map
WindowStarts(extent, win) == { x \in 0..(extent - 1) : x % win = 0 }

\* the cells < y / win_size, x / win_size > generate_binary_map writes to
WrittenCells(obst, win) ==
  { << y \div win, x \div win >> :
      x \in WindowStarts(Len(obst[1]), win), y \in WindowStarts(Len(obst), win) }

\* the written cells that are no elements of binary_map_
OutsideCells(obst, win, grid) ==
  { rc \in WrittenCells(obst, win) :
      ~InGrid(Coord(rc[1], rc[2]), grid) }

\* binary_map_ after the loops of Map::generate_binary_map
generate_binary_map(obst, win, grid) ==
  [r \in DOMAIN grid |->
     [c \in DOMAIN grid[r] |->
        IF << r - 1, c - 1 >> \in WrittenCells(obst, win)
        THEN ClassifyCell(roi_average(obst, (c - 1) * win, (r - 1) * win, win))
        ELSE grid[r][c]]]

\* the mean of the last window the loops visit
LastMean(obst, win) ==
  LET x == CHOOSE a \in WindowStarts(Len(obst[1]), win) :
             \A b \in WindowStarts(Len(obst[1]), win) : b <= a
      y == CHOOSE a \in WindowStarts(Len(obst), win) :
             \A b \in WindowStarts(Len(obst), win) : b <= a
  IN roi_average(obst, x, y, win)

\* Map::draw_grid: black lines on the columns and rows that start a window
draw_grid(obst, win) ==
  [r \in DOMAIN obst |->
     [c \in DOMAIN obst[r] |->
        IF (r - 1) % win = 0 \/ (c - 1) % win = 0 THEN "black" ELSE obst[r][c]]]

\* map_params_ of a Map
MapParameters(width, height, dilation, window_size, divs_w, divs_h) ==
  [ height_ |-> height, width_ |-> width, window_size_ |-> window_size,
    num_divs_h_ |-> divs_h, num_divs_w_ |-> divs_w, dilation_ |-> dilation,
    min_thresh_ |-> MinThresh, max_thresh_ |-> MaxThresh ]

\* the images a caller hands to the constructor for a configured size
ImagesFor(width, height) ==
  IF width >= 1 /\ height >= 1 THEN Images(height, width) ELSE Images(1, 1)

\* before the constructor of the Map runs
InitMap ==
  /\ map_params = MapParameters(0, 0, 0, 0, 0, 0)
  /\ bin_map = EmptyMap
  /\ num_directions_ = 4
  /\ heuristic_ = "MANHATTAN"
  /\ heuristic_func_ = "manhattan"
  /\ source_ = NoCoord
  /\ destination_ = NoCoord
  /\ search_algorithm_ = "ASTAR"
  /\ path_ = << >>
  /\ pc = "start"
  /\ closed_list = {}
  /\ nodes = NoNodes
  /\ open_list = {}
  /\ ret = TRUE
  /\ msg = "none"
  /\ oob = FALSE
  /\ requested_source = NoCoord
  /\ input_map_ = NoImage
  /\ obstacle_map_ = NoImage
  /\ binary_map = NoImage
  /\ avg = 0
  /\ prev = NoRun
  /\ calls = NoCalls

\* exit( EXIT_FAILURE ) in the constructor: the process ends
Map_exit(width, height, dilation, window_size, message) ==
  /\ map_params' = MapParameters(width, height, dilation, window_size, 0, 0)
  /\ pc' = "exited"
  /\ msg' = message
  /\ UNCHANGED << bin_map, imageVars, oob >>

\* Map::Map( map_configuration_file, map ) for a configuration file that
\* parses to the four sizes, and the image map (NoImage: map.data is null)
Map_Map(width, height, dilation, window_size, map) ==
  /\ pc = "start"
  /\ IF width < 0 \/ height < 0 \/ window_size < 0 \/ dilation < 0
     THEN Map_exit(width, height, dilation, window_size, "invalid_parameters")
     ELSE IF window_size = 0
     THEN \* width_ / window_size_ divides by zero: the division traps, or the
          \* construction goes on with values that are not followed further
          /\ map_params' = MapParameters(width, height, dilation, window_size, 0, 0)
          /\ pc' \in {"crashed", "undefined"}
          /\ msg' = "fault"
          /\ UNCHANGED << bin_map, imageVars, oob >>
     ELSE IF map = NoImage
     THEN Map_exit(width, height, dilation, window_size, "no_image_data")
     ELSE IF width = 0 \/ height = 0
     THEN \* cv::resize to an empty size throws out of the constructor
          /\ map_params' = MapParameters(width, height, dilation, window_size,
                                         width \div window_size,
                                         height \div window_size)
          /\ bin_map' = Uniform(height \div window_size, width \div window_size, 0)
          /\ pc' = "thrown"
          /\ msg' = "exception"
          /\ UNCHANGED << imageVars, oob >>
     ELSE /\ map_params' = MapParameters(width, height, dilation, window_size,
                                         width \div window_size,
                                         height \div window_size)
          /\ bin_map' = Uniform(height \div window_size, width \div window_size, 0)
          /\ input_map_' = map
          /\ obstacle_map_' = Uniform(height, width, "black")
          /\ pc' = "constructed"
          /\ UNCHANGED << binary_map, avg, msg, oob >>
  /\ UNCHANGED << pfConfig, source_, destination_, path_, searchLocals, ret,
                  callerVars >>

\* Map::create_obstacle_map up to the binarization of the grey map
Map_create_obstacle_map_threshold ==
  /\ pc = "constructed"
  /\ binary_map' = ThresholdBinaryInv(input_map_, map_params.min_thresh_,
                                      map_params.max_thresh_)
  /\ pc' = "binarized"
  /\ UNCHANGED << mapVars, input_map_, obstacle_map_, avg, pfConfig, source_,
                  destination_, path_, searchLocals, ret, msg, oob, callerVars >>

\* the rest of Map::create_obstacle_map: dilation, obstacle map, grid, lines.
\* A write outside binary_map_ corrupts the heap: the call returns with the
\* grid it has, or the process faults
Map_create_obstacle_map ==
  /\ pc = "binarized"
  /\ LET dilated_map == Dilate(binary_map, EllipseElement(map_params.dilation_),
                               DilateIterations)
         obst == create_bgr_obstacle_map(dilated_map, map_params.max_thresh_)
         win_size == map_params.window_size_
     IN /\ bin_map' = generate_binary_map(obst, win_size, bin_map)
        /\ avg' = LastMean(obst, win_size)
        /\ oob' = (OutsideCells(obst, win_size, bin_map) # {})
        /\ IF OutsideCells(obst, win_size, bin_map) # {}
           THEN \/ pc' = "crashed" /\ msg' = "fault" /\ ret' = ret
                                   /\ obstacle_map_' = obst
                \/ pc' = "mapped" /\ msg' = msg /\ ret' = TRUE
                                  /\ obstacle_map_' = draw_grid(obst, win_size)
           ELSE pc' = "mapped" /\ msg' = msg /\ ret' = TRUE
                               /\ obstacle_map_' = draw_grid(obst, win_size)
  /\ UNCHANGED << map_params, input_map_, binary_map, pfConfig, source_,
                  destination_, path_, searchLocals, callerVars >>

\* the sizes of a configuration file with the image handed to the constructor
SizedImages ==
  UNION { { << width, height, map >> :
              map \in ImagesFor(width, height) \cup { NoImage } } :
          width \in (-1)..MaxPixW, height \in (-1)..MaxPixH }

\* the constructor runs once, first
ConstructorInputs == IF pc = "start" THEN SizedImages ELSE {}

NextMap ==
  \/ \E in \in ConstructorInputs, dilation \in (-1)..MaxDilation,
        window_size \in (-1)..MaxWindow :
       Map_Map(in[1], in[2], dilation, window_size, in[3])
  \/ Map_create_obstacle_map_threshold
  \/ Map_create_obstacle_map

SpecMap == InitMap /\ [][NextMap]_vars

(***************************************************************************)
(* The classification of one cell from the mean of its window, as each of  *)
(* the three grid-building routines writes it: Map::generate_binary_map,   *)
(* Map::generate_bin_map of map_generator.cpp and generate_graph of        *)
(* main.cpp.  avg holds the mean, bin_map the grid of the one cell, msg    *)
(* the routine that wrote it.                                              *)
(***************************************************************************)
\* the threshold of map_generator.cpp, a name the sources do not define
FREE_BLOCK == 225

\* the threshold written into generate_graph
GraphThreshold == 220

\* the means roi_average and average can return
Means == 0..ChannelMax

InitClassify == Constructed({MakeParams(1, 1, 1)}) /\ bin_map = Uniform(1, 1, FREE)

\* what the write of one cell leaves alone
ClassifyUnchanged ==
  UNCHANGED << map_params, input_map_, obstacle_map_, binary_map, pfConfig,
               source_, destination_, path_, searchLocals, ret, oob,
               callerVars >>

\* binary_map_[ .. ][ .. ] = ( avg < FREE_CELL ? BLOCKED : FREE )
generate_binary_map_cell(mean) ==
  /\ avg' = mean
  /\ bin_map' = Uniform(1, 1, ClassifyCell(mean))
  /\ msg' = "Map::generate_binary_map"
  /\ pc' = "classified"
  /\ ClassifyUnchanged

\* bin_map_[ .. ][ .. ] = ( avg < FREE_BLOCK ? 0 : 1 )
generate_bin_map_cell(mean) ==
  /\ avg' = mean
  /\ bin_map' = Uniform(1, 1, IF mean < FREE_BLOCK THEN 0 ELSE 1)
  /\ msg' = "Map::generate_bin_map"
  /\ pc' = "classified"
  /\ ClassifyUnchanged

\* graph[ .. ][ .. ] = ( avg < 220 ? 1 : 0 )
generate_graph_cell(mean) ==
  /\ avg' = mean
  /\ bin_map' = Uniform(1, 1, IF mean < GraphThreshold THEN 1 ELSE 0)
  /\ msg' = "generate_graph"
  /\ pc' = "classified"
  /\ ClassifyUnchanged

NextClassify ==
  \/ \E mean \in Means : generate_binary_map_cell(mean)
  \/ \E mean \in Means : generate_bin_map_cell(mean)
  \/ \E mean \in Means : generate_graph_cell(mean)

SpecClassify == InitClassify /\ [][NextClassify]_vars

(***************************************************************************)
(* PathFinder on grids of 5 x 5 cells with the corners as source and       *)
(* destination: the grid without obstacles, and the grid whose destination *)
(* corner is cut off from its two cardinal neighbours.                     *)
(***************************************************************************)
AllFree == Uniform(5, 5, FREE)

CornerCut ==
  [r \in 1..5 |->
     [c \in 1..5 |-> IF << r, c >> \in {<< 4, 5 >>, << 5, 4 >>} THEN BLOCKED ELSE FREE]]

Corners == { Coord(0, 0), Coord(4, 4) }

InitCorner ==
  /\ bin_map \in { AllFree, CornerCut }
  /\ Constructed({MakeParams(5, 5, 1)})

NextCorner ==
  \/ \E h \in HeuristicTypes : set_heuristic(h)
  \/ \E c \in Corners : set_source(c)
  \/ \E c \in Corners : set_destination(c)
  \/ find_path
  \/ astar_step
  \/ astar_exhausted

SpecCorner == InitCorner /\ [][NextCorner]_vars

(***************************************************************************)
(* Two threads call find_path and then get_path on one PathFinder, on the  *)
(* same grid.  closed_list, nodes and open_list are locals of astar and    *)
(* private to each call; source_, destination_ and path_ are members of    *)
(* the PathFinder and shared.  calls[t].pc is the position of thread t:    *)
(* "idle", "search" (in the while loop of astar), "astar_returned" (before *)
(* the test path_.empty() of find_path), "returned" (find_path returned),  *)
(* "done" (get_path returned).  The PathFinder is configured before the    *)
(* threads start; the maps have one cell per pixel.                        *)
(***************************************************************************)
InitThreads == Constructed(SquareConfigs) /\ bin_map # EmptyMap

\* no thread has called find_path yet
NoneStarted == \A t \in Threads : calls[t].pc = "idle"

\* the cells a caller configures as source and destination before the threads
\* start
ThreadCoordInputs == IF NoneStarted THEN Region(map_params) ELSE {}

\* the heuristics a caller configures before the threads start
ThreadHeuristicInputs == IF NoneStarted THEN HeuristicTypes ELSE {}

\* what a step of a thread leaves alone
ThreadUnchanged ==
  UNCHANGED << mapVars, imageVars, pfConfig, source_, destination_, pc,
               searchLocals, ret, msg, oob, requested_source, prev >>

\* find_path of thread t up to the first test of the while loop of astar:
\* path_.clear(), then the tests and the initialisation of astar
Thread_find_path(t) ==
  /\ calls[t].pc = "idle"
  /\ path_' = << >>
  /\ IF \/ ~is_coord_in_range(source_, map_params)
        \/ ~is_coord_in_range(destination_, map_params)
        \/ is_coord_blocked(source_, bin_map)
        \/ is_coord_blocked(destination_, bin_map)
        \/ is_coord_destination(source_, destination_)
     THEN calls' = [calls EXCEPT ![t].pc = "astar_returned"]
     ELSE calls' = [calls EXCEPT ![t].pc = "search",
                                 ![t].closed_list = {},
                                 ![t].nodes = InitNodes(map_params, source_),
                                 ![t].open_list = { NewNode(source_, 0, 0) }]
  /\ ThreadUnchanged

\* one iteration of the while loop of astar in thread t
Thread_astar_step(t) ==
  /\ calls[t].pc = "search"
  /\ calls[t].open_list # {}
  /\ \E temp_node \in MinNodes(calls[t].open_list) :
       LET current_coord == temp_node.parent
           closed == calls[t].closed_list \cup { current_coord }
           st == Successors(1, [g |-> temp_node.g,
                                open |-> calls[t].open_list \ { temp_node },
                                nodes |-> calls[t].nodes, status |-> "run",
                                oob |-> FALSE],
                            current_coord, closed, << >>)
       IN IF st.status = "found"
          THEN /\ path_' = get_path(st.nodes, destination_)
               /\ calls' = [calls EXCEPT ![t].pc = "astar_returned"]
          ELSE /\ calls' = [calls EXCEPT ![t].closed_list = closed,
                                         ![t].nodes = st.nodes,
                                         ![t].open_list = st.open]
               /\ UNCHANGED path_
  /\ ThreadUnchanged

\* the open list of thread t is empty: path_.clear() and return of astar
Thread_astar_exhausted(t) ==
  /\ calls[t].pc = "search"
  /\ calls[t].open_list = {}
  /\ path_' = << >>
  /\ calls' = [calls EXCEPT ![t].pc = "astar_returned"]
  /\ ThreadUnchanged

\* the test path_.empty() and the return of find_path in thread t
Thread_find_path_return(t) ==
  /\ calls[t].pc = "astar_returned"
  /\ calls' = [calls EXCEPT ![t].pc = "returned", ![t].ret = (path_ # << >>)]
  /\ UNCHANGED path_
  /\ ThreadUnchanged

\* get_path of thread t after its find_path
Thread_get_path(t) ==
  /\ calls[t].pc = "returned"
  /\ calls' = [calls EXCEPT ![t].pc = "done", ![t].path = path_]
  /\ UNCHANGED path_
  /\ ThreadUnchanged

NextThreads ==
  \/ \E h \in ThreadHeuristicInputs : set_heuristic(h)
  \/ \E c \in ThreadCoordInputs : set_source(c)
  \/ \E c \in ThreadCoordInputs : set_destination(c)
  \/ \E t \in Threads : Thread_find_path(t)
  \/ \E t \in Threads : Thread_astar_step(t)
  \/ \E t \in Threads : Thread_astar_exhausted(t)
  \/ \E t \in Threads : Thread_find_path_return(t)
  \/ \E t \in Threads : Thread_get_path(t)

SpecThreads == InitThreads /\ [][NextThreads]_vars

(***************************************************************************)
(* The planning loop of the test program: the grid the Map built is handed *)
(* to find_path, the path found is traced with Map::trace_path, and the    *)
(* grid of the Map is handed to the next find_path.  bin_map holds         *)
(* binary_map_ of the Map, of which each find_path gets a copy.  The       *)
(* circles trace_path draws change pixels of the displayed image only.     *)
(***************************************************************************)
\* the value Map::trace_path writes into the cells of the path
TraceMark == 7

TraceConfigs == SquareConfigs \cup WindowConfigs

InitTrace == Constructed(TraceConfigs) /\ bin_map # EmptyMap

RECURSIVE InsideCells(_, _)
\* the coordinates of the path that are elements of the grid, in order
InsideCells(path, grid) ==
  IF path = << >> THEN << >>
  ELSE IF InGrid(path[1], grid)
       THEN << path[1] >> \o InsideCells(Tail(path), grid)
       ELSE InsideCells(Tail(path), grid)

\* Map::trace_path( path ) with the path of get_path after a find_path that
\* returned true.  binary_map_[ p.r ][ p.c ] = 7 for a coordinate outside
\* the vectors writes out of bounds: the call goes on, or the process faults
Map_trace_path ==
  /\ pc = "done"
  /\ ret = TRUE
  /\ bin_map' = WriteCells(bin_map, InsideCells(path_, bin_map), TraceMark)
  /\ IF \E k \in 1..Len(path_) : ~InGrid(path_[k], bin_map)
     THEN /\ oob' = TRUE
          /\ \/ pc' = "crashed" /\ msg' = "fault"
             \/ pc' = "traced" /\ msg' = "traced"
     ELSE /\ pc' = "traced"
          /\ msg' = "traced"
          /\ UNCHANGED oob
  /\ UNCHANGED << map_params, imageVars, pfConfig, source_, destination_, path_,
                  searchLocals, ret, callerVars >>

\* the caller goes on to plan again on the grid of the Map
plan_again ==
  /\ pc = "traced"
  /\ pc' = "idle"
  /\ UNCHANGED << mapVars, imageVars, pfConfig, source_, destination_, path_,
                  searchLocals, ret, msg, oob, callerVars >>

NextTrace ==
  \/ \E h \in HeuristicTypes : set_heuristic(h)
  \/ \E c \in Region(map_params) : set_source(c)
  \/ \E c \in Region(map_params) : set_destination(c)
  \/ find_path
  \/ astar_step
  \/ astar_exhausted
  \/ Map_trace_path
  \/ plan_again

SpecTrace == InitTrace /\ [][NextTrace]_vars

(***************************************************************************)
(* Vocabulary of the properties.                                           *)
(***************************************************************************)
\* find_path has returned
Returned == pc = "done"

\* find_path has returned true
Succeeded == pc = "done" /\ ret = TRUE

\* the movement offsets that belong to the bound heuristic function
OffsetsOf(f) ==
  IF f = "manhattan"
  THEN { directions_[i] : i \in 1..4 }
  ELSE { directions_[i] : i \in 1..8 }

\* the cells of the grid
Cells(g) == { Coord(r - 1, c - 1) : r \in DOMAIN g, c \in 1..(MaxW + MaxPixW) } \cap
            { rc \in Region(MakeParams(Len(g), MaxW + MaxPixW, 1)) : InGrid(rc, g) }

FreeCells(g) == { rc \in Cells(g) : Cell(g, rc) = FREE }

\* cost of the step between two neighbouring cells
OffsetCost(a, b) == IF a.r = b.r \/ a.c = b.c THEN CardinalCost ELSE DiagonalCost

RECURSIVE PathCost(_)
\* total step cost of a sequence of cells
PathCost(p) ==
  IF Len(p) <= 1 THEN 0 ELSE OffsetCost(p[1], p[2]) + PathCost(Tail(p))

\* one round of relaxation of the distances d from the start cell over the
\* FREE cells of g, moving along the offsets offs
RelaxOnce(d, g, offs) ==
  [ rc \in DOMAIN d |->
      LET via == { d[n] + OffsetCost(n, rc) :
                     n \in { m \in DOMAIN d : d[m] # INT_MAX /\
                               \E o \in offs : CoordAdd(m, o) = rc } }
          best == IF via = {} THEN INT_MAX
                  ELSE CHOOSE x \in via : \A y \in via : x <= y
      IN Min(d[rc], best) ]

RECURSIVE Tabulate(_, _)
\* the function d written out cell by cell
Tabulate(S, d) ==
  IF S = {} THEN << >>
  ELSE LET x == CHOOSE y \in S : TRUE IN (x :> d[x]) @@ Tabulate(S \ {x}, d)

RECURSIVE Relax(_, _, _, _)
Relax(d, g, offs, k) ==
  IF k = 0 THEN d
  ELSE Relax(Tabulate(DOMAIN d, RelaxOnce(d, g, offs)), g, offs, k - 1)

\* minimum cost over all paths of FREE cells from a to b (INT_MAX: no path)
MinCost(g, a, b, offs) ==
  IF a \notin FreeCells(g) \/ b \notin FreeCells(g) THEN INT_MAX
  ELSE Relax(Tabulate(FreeCells(g), [ rc \in FreeCells(g) |-> IF rc = a THEN 0 ELSE INT_MAX ]),
             g, offs, Cardinality(FreeCells(g)))[b]

\* some sequence of FREE cells linked by the offsets joins a to b
Connected(g, a, b, offs) == MinCost(g, a, b, offs) # INT_MAX

(***************************************************************************)
(* Properties of the returned path.                                        *)
(***************************************************************************)
\* C1: whenever find_path succeeds, the path of get_path starts with the
\* source and ends with the destination.
C1_PathRunsSourceToDestination ==
  Succeeded =>
    /\ Len(path_) >= 1
    /\ path_[1] = source_
    /\ path_[Len(path_)] = destination_

\* C2: whenever find_path succeeds, the total step cost of the returned path is
\* the minimum cost over all paths of FREE cells from source to destination
\* under the same offsets and step costs.
C2_PathCostIsMinimal ==
  (Succeeded /\ InGrid(source_, bin_map) /\ InGrid(destination_, bin_map)) =>
    PathCost(path_) = MinCost(bin_map, source_, destination_, OffsetsOf(heuristic_func_))

\* C3: whenever find_path succeeds, each consecutive pair of coordinates of the
\* path differs by exactly one offset of the connectivity of the heuristic:
\* a cardinal offset for manhattan, one of the 8 offsets for the other two.
C3_StepsAreMovementOffsets ==
  Succeeded =>
    \A k \in 1..(Len(path_) - 1) :
      \E o \in OffsetsOf(heuristic_func_) : path_[k] = CoordAdd(path_[k + 1], o)

\* C3 witness: a returned path of three cells that takes a diagonal step
C3_Witness ==
  /\ Succeeded
  /\ Len(path_) >= 3
  /\ heuristic_func_ = "euclidean"
  /\ \E k \in 1..(Len(path_) - 1) :
       path_[k].r # path_[k + 1].r /\ path_[k].c # path_[k + 1].c

\* C4: no coordinate of a path returned by a successful find_path is a BLOCKED
\* cell of the grid searched.
C4_NoBlockedCellOnPath ==
  Succeeded =>
    \A k \in 1..Len(path_) :
      InGrid(path_[k], bin_map) => Cell(bin_map, path_[k]) # BLOCKED

\* C4 witness: a returned path of at least four cells through a grid that has
\* a BLOCKED cell next to the source
C4_Witness ==
  /\ Succeeded
  /\ Len(path_) >= 4
  /\ \A k \in 1..Len(path_) : InGrid(path_[k], bin_map)
  /\ \E o \in OffsetsOf(heuristic_func_) :
       /\ InGrid(CoordAdd(source_, o), bin_map)
       /\ Cell(bin_map, CoordAdd(source_, o)) = BLOCKED

\* C5: when source equals destination, both in range and FREE, find_path
\* succeeds and the path is the single cell [source].
C5_SourceIsDestination ==
  ( /\ Returned
    /\ source_ = destination_
    /\ InGrid(source_, bin_map)
    /\ is_coord_in_range(source_, map_params)
    /\ Cell(bin_map, source_) = FREE )
  => ( ret = TRUE /\ path_ = << source_ >> )

(***************************************************************************)
(* Properties of the failures.                                             *)
(***************************************************************************)
\* the coordinate is a cell of the num_divs_h_ x num_divs_w_ occupancy grid
InCells(coordinate, mp) ==
  /\ 0 <= coordinate.r /\ coordinate.r < mp.num_divs_h_
  /\ 0 <= coordinate.c /\ coordinate.c < mp.num_divs_w_

\* C6: on a non-empty grid, find_path fails with an out-of-range error, before
\* it reads any cell, whenever the source or the destination lies outside
\* [0, num_divs_h_) x [0, num_divs_w_), the dimensions of the grid in cells.
C6_OutOfRangeRejected ==
  ( /\ pc # "idle"
    /\ bin_map # << >>
    /\ ~InCells(source_, map_params) \/ ~InCells(destination_, map_params) )
  => ( /\ Returned
       /\ ret = FALSE
       /\ msg \in {"source_invalid", "destination_invalid"}
       /\ ~oob )

\* C7: once set_source( {-1, 0} ) was the last set_source call, the find_path
\* that follows returns failure with an empty path, whatever source an earlier
\* set_source call stored.
C7_NegativeSourceFails ==
  (Returned /\ requested_source = Coord(-1, 0)) => (ret = FALSE /\ path_ = << >>)

\* C8: the search rejects a query as blocked exactly when the source cell or
\* the destination cell is BLOCKED, and the cells it puts on the open list as
\* neighbours are never BLOCKED: one sense of BLOCKED serves both tests.
C8_BlockedSense ==
  /\ ( /\ Returned
       /\ InGrid(source_, bin_map) /\ InGrid(destination_, bin_map)
       /\ msg \notin {"map_empty", "search_not_supported", "source_invalid",
                      "destination_invalid"} )
     => ( msg \in {"source_blocked", "destination_blocked"}
          <=> ( \/ Cell(bin_map, source_) = BLOCKED
                \/ Cell(bin_map, destination_) = BLOCKED ) )
  /\ \A n \in open_list :
       InGrid(n.parent, bin_map) => Cell(bin_map, n.parent) # BLOCKED

\* C9: if source and destination are distinct FREE cells of the grid and no
\* sequence of FREE cells linked by the movement offsets joins them, find_path
\* returns failure with an empty path after the open list ran empty.
C9_NoPathFails ==
  ( /\ Returned
    /\ InGrid(source_, bin_map) /\ InGrid(destination_, bin_map)
    /\ Cell(bin_map, source_) = FREE /\ Cell(bin_map, destination_) = FREE
    /\ source_ # destination_
    /\ ~Connected(bin_map, source_, destination_, OffsetsOf(heuristic_func_)) )
  => ( ret = FALSE /\ path_ = << >> /\ msg = "no_destination" )

\* C10: two find_path runs on the same grid, source, destination and heuristic
\* return the same path and the same result.
C10_Deterministic ==
  (Returned /\ prev.ran /\ map_params.window_size_ = 1)
  => (path_ = prev.path /\ ret = prev.ret)

(***************************************************************************)
(* Frame properties.                                                       *)
(***************************************************************************)
\* C11: a search call never changes a cell of the occupancy grid handed to
\* it: every step of a search leaves bin_map as it was.
C11_GridUnchanged == [][bin_map' = bin_map]_vars

\* C12: whenever the most recent find_path call has failed, for whatever
\* reason, get_path returns an empty path: no path of an earlier call is left.
C12_NoStalePath == (Returned /\ ret = FALSE) => path_ = << >>

(***************************************************************************)
(* Properties of the configuration.                                        *)
(***************************************************************************)
\* C13: the number of movement directions is 4 exactly when the bound
\* heuristic function is manhattan and 8 exactly when it is euclidean or
\* octagonal; a set_heuristic call that rejected its argument has returned
\* failure and has not stored the rejected heuristic.
C13_HeuristicDirections ==
  /\ num_directions_ = 4 <=> heuristic_func_ = "manhattan"
  /\ num_directions_ = 8 <=> heuristic_func_ \in {"euclidean", "octagonal"}
  /\ msg = "heuristic_not_supported" =>
       (ret = FALSE /\ heuristic_ # "NOT_SUPPORTED")


\* the constructor of the Map has run on a configuration with a width,
\* height, window size or dilation that is zero or negative
InvalidConfig ==
  /\ pc # "start"
  /\ \/ map_params.width_ <= 0
     \/ map_params.height_ <= 0
     \/ map_params.window_size_ <= 0
     \/ map_params.dilation_ <= 0

\* C14: a map configuration whose width, height, window size or dilation is
\* zero or negative is rejected by the constructor before the numbers of
\* cells are computed and the grid is allocated.
C14_InvalidConfigRejected ==
  InvalidConfig => (msg = "invalid_parameters" /\ bin_map = EmptyMap)


\* C15: every failure is reported to the caller as a returned error value:
\* no operation of the grid builder ends the process.
C15_NoProcessExit == pc # "exited"


\* create_obstacle_map has returned with the grid generated
GridGenerated == pc = "mapped"

\* C16: the grid has exactly floor( height / window_size ) rows and
\* floor( width / window_size ) columns, and every cell written while the
\* image is partitioned lies inside it, also when the image size is not a
\* multiple of the window size.
C16_GridDimensions ==
  GridGenerated =>
    /\ Len(bin_map) = map_params.height_ \div map_params.window_size_
    /\ \A r \in DOMAIN bin_map :
         Len(bin_map[r]) = map_params.width_ \div map_params.window_size_
    /\ ~oob


\* C17: a cell is BLOCKED (1) exactly when the integer mean of its window is
\* under 225 and FREE (0) otherwise, in every routine that builds a grid.
C17_CellClassification ==
  pc = "classified" =>
    /\ bin_map[1][1] \in {FREE, BLOCKED}
    /\ bin_map[1][1] = BLOCKED <=> avg < FREE_CELL


\* the pixel is an obstacle pixel of the binarized map
ObstaclePixel(r, c) == binary_map[r][c] = map_params.max_thresh_

\* C18: the binarization marks a pixel as obstacle exactly when its grey
\* level lies outside the closed interval [ min_thresh, max_thresh ].
C18_ObstacleOutsideInterval ==
  pc = "binarized" =>
    \A r \in DOMAIN input_map_ : \A c \in DOMAIN input_map_[r] :
      ObstaclePixel(r, c) <=> \/ input_map_[r][c] < map_params.min_thresh_
                              \/ input_map_[r][c] > map_params.max_thresh_


\* the open nodes a step of the search removes, and the ones it adds
ExpandedNodes == open_list \ open_list'
PushedNodes == open_list' \ open_list

\* the step from cell a to cell b is along a row or a column
CardinalStep(a, b) == a.r = b.r \/ a.c = b.c

\* C19: under 8 directions a cardinal step costs 10 and a diagonal step 14,
\* and the gCost of every cell a step of the search discovers is the gCost of
\* the cell being expanded plus the cost of the step between them.
C19_StepCosts ==
  [][(pc = "search" /\ pc' = "search" /\ num_directions_ = 8) =>
       \A n \in PushedNodes : \E e \in ExpandedNodes :
         n.g = e.g + (IF CardinalStep(e.parent, n.parent) THEN 10 ELSE 14)]_vars


\* find_path has returned for the corners of the grid without obstacles under
\* the euclidean heuristic
ScenarioA ==
  /\ Returned
  /\ bin_map = AllFree
  /\ heuristic_func_ = "euclidean"
  /\ source_ = Coord(0, 0)
  /\ destination_ = Coord(4, 4)

\* C20: on the 5 x 5 grid without obstacles, from (0,0) to (4,4) under the
\* euclidean heuristic, find_path returns the path (0,0), (1,1), (2,2),
\* (3,3), (4,4), whose cost is four diagonal steps.
C20_ScenarioA ==
  ScenarioA =>
    /\ ret = TRUE
    /\ path_ = << Coord(0, 0), Coord(1, 1), Coord(2, 2), Coord(3, 3), Coord(4, 4) >>
    /\ PathCost(path_) = 4 * DiagonalCost


(***************************************************************************)
(* Properties of the heuristics and of the search loop.                    *)
(***************************************************************************)
\* a search is running on a grid without obstacles, towards a cell of the grid
SearchOnFreeGrid ==
  /\ pc = "search"
  /\ bin_map # EmptyMap
  /\ NumBlocked(bin_map) = 0
  /\ InGrid(destination_, bin_map)

\* C21: on a grid without obstacles the bound heuristic never exceeds the
\* minimum cost of a path to the destination under the movement offsets paired
\* with it and the step costs of the search: for every cell of the grid, and
\* for every estimate the search has recorded in its node table.
C21_HeuristicAdmissible ==
  SearchOnFreeGrid =>
    \A a \in Cells(bin_map) :
      LET cost == MinCost(bin_map, a, destination_, OffsetsOf(heuristic_func_)) IN
      /\ ApplyHeuristic(heuristic_func_, a, destination_) <= cost
      /\ nodes[a].h # INT_MAX => nodes[a].h <= cost

\* C21 witness: a search under the euclidean heuristic on a grid without
\* obstacles has recorded an estimate of at least 2 for a discovered cell
C21_Witness ==
  /\ SearchOnFreeGrid
  /\ heuristic_func_ = "euclidean"
  /\ \E a \in Cells(bin_map) : nodes[a].h # INT_MAX /\ nodes[a].h >= 2


\* the difference of the rows and of the columns of two coordinates
DRow(a, b) == Abs(a.r - b.r)
DCol(a, b) == Abs(a.c - b.c)

\* the value h is what the defining formula of the heuristic f gives for a, b
IsFormulaValue(f, h, a, b) ==
  CASE f = "manhattan" -> h = DRow(a, b) + DCol(a, b)
    [] f = "euclidean" -> h * h = DRow(a, b) * DRow(a, b) + DCol(a, b) * DCol(a, b)
    [] f = "octagonal" -> h = (DRow(a, b) + DCol(a, b)) - Min(DRow(a, b), DCol(a, b))

\* C22: for all coordinates a, b the heuristic functions return a non-negative
\* number equal to their defining formula (manhattan |dr| + |dc|, euclidean
\* sqrt( dr^2 + dc^2 ), octagonal |dr| + |dc| - min( |dr|, |dc| )), symmetric
\* in the arguments and 0 when a = b.
C22_HeuristicFormulas ==
  (pc = "search" /\ bin_map # EmptyMap) =>
    \A a \in Cells(bin_map), b \in Cells(bin_map) :
      LET h == ApplyHeuristic(heuristic_func_, a, b) IN
      /\ h >= 0
      /\ IsFormulaValue(heuristic_func_, h, a, b)
      /\ h = ApplyHeuristic(heuristic_func_, b, a)
      /\ a = b => h = 0


RECURSIVE SoloSearch(_, _, _)
\* the outcomes of the while loop of astar, run alone from the open list,
\* closed cells and node table given, over every choice among the open nodes
\* of minimal f
SoloSearch(open, closed, nds) ==
  IF open = {} THEN { [ret |-> FALSE, path |-> << >>] }
  ELSE UNION {
         LET now == closed \cup { n.parent }
             st == Successors(1, [g |-> n.g, open |-> open \ { n }, nodes |-> nds,
                                  status |-> "run", oob |-> FALSE],
                              n.parent, now, << >>)
         IN IF st.status = "found"
            THEN { [ret |-> TRUE, path |-> get_path(st.nodes, destination_)] }
            ELSE SoloSearch(st.open, now, st.nodes) :
         n \in MinNodes(open) }

\* the values find_path and get_path can return for the configured source and
\* destination when the call runs alone on a map with one cell per pixel
SoloResults ==
  IF \/ ~is_coord_in_range(source_, map_params)
     \/ ~is_coord_in_range(destination_, map_params)
     \/ is_coord_blocked(source_, bin_map)
     \/ is_coord_blocked(destination_, bin_map)
     \/ is_coord_destination(source_, destination_)
  THEN { [ret |-> FALSE, path |-> << >>] }
  ELSE SoloSearch({ NewNode(source_, 0, 0) }, {}, InitNodes(map_params, source_))

\* C23: two find_path computations that run concurrently over the same grid
\* share no mutable state, so in every interleaving each one returns, from
\* find_path and the get_path after it, a result it returns when run alone.
C23_ConcurrentCallsIsolated ==
  \A t \in Threads :
    calls[t].pc = "done" =>
      [ret |-> calls[t].ret, path |-> calls[t].path] \in SoloResults


\* C24: after any sequence of grid-building, find_path and path-tracing
\* operations every cell of the occupancy grid holds FREE (0) or BLOCKED (1),
\* so the grid handed to a later find_path is the one the builder produced.
C24_CellsFreeOrBlocked ==
  \A r \in DOMAIN bin_map : \A c \in DOMAIN bin_map[r] :
    bin_map[r][c] \in {FREE, BLOCKED}


\* the last call of set_heuristic or set_search_algorithm found its argument
\* not supported
ArgumentRejected == msg \in {"heuristic_not_supported", "search_not_supported"}

\* C25: set_heuristic and set_search_algorithm of the PathGenerator return
\* false exactly when the argument is not supported and true otherwise, as
\* their documentation says.
C25_BoolConvention == ret = ~ArgumentRejected


\* C26: during one search each cell is closed and expanded at most once: an
\* open entry popped for a cell that is already closed is discarded and
\* generates no successors.
C26_ExpandedAtMostOnce ==
  [][(pc = "search" /\ pc' = "search") =>
       \A n \in ExpandedNodes : n.parent \notin closed_list]_vars


\* the cost the search orders its open nodes by: h + g, and h alone for the
\* nodes of Function::astar, which carry no g
OpenCost(n) == IF "g" \in DOMAIN n THEN Node_f(n) ELSE n.h

\* C27: at every iteration of the search loop the entry removed from the open
\* set has the minimum cost among all entries of the open set at that moment.
C27_PopsMinimum ==
  [][(pc = "search" /\ pc' = "search") =>
       \A n \in ExpandedNodes : \A m \in open_list : OpenCost(n) <= OpenCost(m)]_vars


\* a sequence of coordinates in which no coordinate occurs twice
NoRepeat(p) == \A i, j \in DOMAIN p : p[i] = p[j] => i = j

\* cells of the node table that were given a parent
Discovered == { a \in DOMAIN nodes : nodes[a].parent \in DOMAIN nodes }

\* the parent pointers are a tree rooted at the source: the source is the only
\* cell that is its own parent, and the walk along the parents from any
\* discovered cell repeats no cell and ends at the source
ParentsLeadToSource ==
  pc = "search" =>
    /\ nodes[source_].parent = source_
    /\ \A a \in Discovered :
         LET walk == Chain(a, nodes, Cardinality(DOMAIN nodes)) IN
         /\ nodes[a].parent = a => a = source_
         /\ NoRepeat(walk)
         /\ walk[Len(walk)] = source_

\* the path of a search that found the destination goes from the destination
\* to the source, repeats no coordinate and has at most as many entries as the
\* grid has cells
PathIsSimple ==
  (Succeeded /\ msg = "found") =>
    /\ path_[1] = destination_
    /\ path_[Len(path_)] = source_
    /\ NoRepeat(path_)
    /\ Len(path_) <= Cardinality(Cells(bin_map))

\* the calling thread runs the search loop until astar returns
SpecLive == InitTrace /\ [][Next]_vars /\ WF_vars(astar_step) /\ WF_vars(astar_exhausted)

\* a search in progress comes to an end
SearchEnds == (pc = "search") ~> (pc # "search")

\* C28: find_path terminates: the search loop ends, the parent pointers of the
\* discovered cells contain no cycle and lead to the source, the only cell
\* that is its own parent, and the returned path repeats no coordinate and
\* has at most numCellsH * numCellsW entries.
C28_SearchTerminates ==
  /\ SearchEnds
  /\ [](ParentsLeadToSource /\ PathIsSimple)


\* the A* search was asked for distinct FREE cells of the grid that a sequence
\* of FREE cells linked by the active movement offsets joins
JoinedEndpoints ==
  /\ bin_map # EmptyMap
  /\ search_algorithm_ = "ASTAR"
  /\ InGrid(source_, bin_map) /\ InGrid(destination_, bin_map)
  /\ Cell(bin_map, source_) = FREE /\ Cell(bin_map, destination_) = FREE
  /\ source_ # destination_
  /\ Connected(bin_map, source_, destination_, OffsetsOf(heuristic_func_))

\* C29: the search is complete: whenever source and destination are in range,
\* FREE and distinct and some sequence of FREE cells linked by the active
\* movement offsets joins them, find_path succeeds and returns a non-empty path.
C29_SearchComplete ==
  (pc \in {"done", "crashed"} /\ JoinedEndpoints) => (Succeeded /\ path_ # << >>)


\* C30: every index the search uses to read the grid, the closed list or the
\* node records, and every coordinate of the path it returns, lies within the
\* dimensions of the occupancy grid, for every map the builder can produce, so
\* that tracing the path onto the grid never indexes outside it.
C30_IndicesInsideGrid ==
  /\ ~oob
  /\ \A a \in closed_list : InGrid(a, bin_map)
  /\ \A a \in Discovered : InGrid(a, bin_map)
  /\ \A i \in DOMAIN path_ : InGrid(path_[i], bin_map)

====
